---- MODULE Spec2Model ----
(***************************************************************************)
(* Launch orchestration of nav2_bringup: the simulation session            *)
(* (tb4_simulation_launch.py) and the loopback session                     *)
(* (tb4_loopback_simulation_launch.py).  The two launch descriptions       *)
(* (actions, their kinds, guards, payloads and declaration order) are      *)
(* transcribed from the launch files; the engine that walks them follows   *)
(* sections 4, 5 and 7 of the design specification.                        *)
(***************************************************************************)
EXTENDS Integers, Sequences, FiniteSets, TLC

VARIABLES
    session,      \* which launch file is run: "sim" or "loop"
    cli,          \* CLI overrides: argument name -> value or "unset"
    twinNs,       \* namespace of a second run that differs in nothing else
    phase,        \* "resolving", "running", "shutdown", "exited"
    stack,        \* walk position: frames [list, i], innermost first
    ctxStack,     \* runtime contexts [lc, params], innermost first
    resolved,     \* action name -> number of times it has been resolved
    proc,         \* process name -> "none","running","exited","crashed","terminated"
    ctxSeen,      \* action name -> the runtime context it was resolved against
    childCtx,     \* include name -> [seeded, m] context of the included session
    childCtxTwin, \* the same for the second run
    worldFile,    \* the temporary world file (world_sdf) exists
    hooks,        \* registered shutdown hooks, in registration order
    hookRuns,     \* how many times the world file removal has been executed
    cleanupFailed,\* a hook raised (logged)
    cmdRuns,      \* action name -> external command substitutions executed for it
    artifacts,    \* actions a parameter artifact file was materialized for
    env,          \* GZ_SIM_RESOURCE_PATH as a list of entries
    envWrites,    \* number of modifications of GZ_SIM_RESOURCE_PATH
    lifecycle,    \* map_server: "unconfigured", "inactive", "active"
    activated,    \* map_server has completed configure and activate
    triggered,    \* the lifecycle manager was triggered from outside
    respawnTimer, \* seconds left before map_server is respawned, -1: no respawn pending
    respawns,     \* number of times map_server has been respawned
    signalled,    \* processes sent a terminate signal by the shutdown sequence
    cause,        \* why the session ended: "none","idle","interrupt","error"
    failedAt,     \* the action whose resolution raised, or "none"
    status        \* exit status: -1 while running, then 0 or 1

vars == <<session, cli, twinNs, phase, stack, ctxStack, resolved, proc,
          ctxSeen, childCtx, childCtxTwin, worldFile, hooks, hookRuns,
          cleanupFailed, cmdRuns, artifacts, env, envWrites, lifecycle,
          activated, triggered, respawnTimer, respawns, signalled, cause,
          failedAt, status>>

(***************************************************************************)
(* Expressions (substitutions) and action nodes.                           *)
(***************************************************************************)
Lit(v) == [t |-> "lit", v |-> v, d |-> ""]
LaunchConfiguration(n) == [t |-> "var", v |-> n, d |-> ""]
LaunchConfigurationDefault(n, dflt) == [t |-> "vardef", v |-> n, d |-> dflt]
LaunchConfigAsBool(n) == [t |-> "bool", v |-> n, d |-> ""]

EmptyMap == [x \in {} |-> ""]

\* guards: none, IfCondition(LaunchConfigAsBool(n)),
\* IfCondition(PythonExpression([a, ' and not ', b]))
NoGuard == [t |-> "none", v |-> "", d |-> ""]
IfCondition(n) == [t |-> "if", v |-> n, d |-> ""]
IfAndNot(a, b) == [t |-> "and_not", v |-> a, d |-> b]

Action(name, kind, guard, arg, default, argmap, uses, cmdsub, template) ==
    [name |-> name, kind |-> kind, guard |-> guard, arg |-> arg,
     default |-> default, argmap |-> argmap, uses |-> uses,
     cmdsub |-> cmdsub, template |-> template]

DeclareLaunchArgument(name, arg, default) ==
    Action(name, "declare", NoGuard, arg, default, EmptyMap, {}, FALSE, FALSE)

(***************************************************************************)
(* tb4_simulation_launch.py                                                *)
(***************************************************************************)
SimDeclarations == <<
    DeclareLaunchArgument("declare_namespace_cmd", "namespace", ""),
    DeclareLaunchArgument("declare_slam_cmd", "slam", "False"),
    DeclareLaunchArgument("declare_map_yaml_cmd", "map", "maps/depot.yaml"),
    DeclareLaunchArgument("declare_keepout_mask_yaml_cmd", "keepout_mask",
                          "maps/depot_keepout.yaml"),
    DeclareLaunchArgument("declare_speed_mask_yaml_cmd", "speed_mask",
                          "maps/depot_speed.yaml"),
    DeclareLaunchArgument("declare_graph_file_cmd", "graph",
                          "graphs/depot_graph.geojson"),
    DeclareLaunchArgument("declare_use_sim_time_cmd", "use_sim_time", "true"),
    DeclareLaunchArgument("declare_params_file_cmd", "params_file",
                          "params/nav2_params.yaml"),
    DeclareLaunchArgument("declare_autostart_cmd", "autostart", "true"),
    DeclareLaunchArgument("declare_use_composition_cmd", "use_composition", "True"),
    DeclareLaunchArgument("declare_rviz_config_file_cmd", "rviz_config_file",
                          "rviz/nav2_default_view.rviz"),
    DeclareLaunchArgument("declare_use_simulator_cmd", "use_simulator", "True"),
    DeclareLaunchArgument("declare_use_robot_state_pub_cmd", "use_robot_state_pub",
                          "True"),
    DeclareLaunchArgument("declare_use_rviz_cmd", "use_rviz", "True"),
    DeclareLaunchArgument("declare_simulator_cmd", "headless", "True"),
    DeclareLaunchArgument("declare_world_cmd", "world", "worlds/depot.sdf"),
    DeclareLaunchArgument("declare_robot_name_cmd", "robot_name", "nav2_turtlebot4"),
    DeclareLaunchArgument("declare_robot_sdf_cmd", "robot_sdf",
                          "urdf/standard/turtlebot4.urdf.xacro"),
    DeclareLaunchArgument("declare_use_respawn_cmd", "use_respawn", "False"),
    DeclareLaunchArgument("declare_use_keepout_zones_cmd", "use_keepout_zones", "True"),
    DeclareLaunchArgument("declare_use_speed_zones_cmd", "use_speed_zones", "True") >>

start_robot_state_publisher_cmd ==
    Action("start_robot_state_publisher_cmd", "node",
           IfCondition("use_robot_state_pub"), "", "", EmptyMap,
           {"namespace", "use_sim_time", "robot_sdf"}, TRUE, FALSE)

rviz_cmd ==
    Action("rviz_cmd", "include", IfCondition("use_rviz"), "", "",
           ("namespace" :> LaunchConfiguration("namespace"))
           @@ ("use_sim_time" :> LaunchConfigAsBool("use_sim_time"))
           @@ ("rviz_config" :> LaunchConfiguration("rviz_config_file")),
           {"namespace", "use_sim_time", "rviz_config_file"}, FALSE, FALSE)

bringup_cmd ==
    Action("bringup_cmd", "include", NoGuard, "", "",
           ("namespace" :> LaunchConfiguration("namespace"))
           @@ ("slam" :> LaunchConfigAsBool("slam"))
           @@ ("map" :> LaunchConfiguration("map"))
           @@ ("keepout_mask" :> LaunchConfiguration("keepout_mask"))
           @@ ("speed_mask" :> LaunchConfiguration("speed_mask"))
           @@ ("graph" :> LaunchConfiguration("graph"))
           @@ ("use_sim_time" :> LaunchConfigAsBool("use_sim_time"))
           @@ ("params_file" :> LaunchConfiguration("params_file"))
           @@ ("autostart" :> LaunchConfigAsBool("autostart"))
           @@ ("use_composition" :> LaunchConfigAsBool("use_composition"))
           @@ ("use_respawn" :> LaunchConfigAsBool("use_respawn"))
           @@ ("use_keepout_zones" :> LaunchConfigAsBool("use_keepout_zones"))
           @@ ("use_speed_zones" :> LaunchConfigAsBool("use_speed_zones")),
           {"namespace", "slam", "map", "keepout_mask", "speed_mask", "graph",
            "use_sim_time", "params_file", "autostart", "use_composition",
            "use_respawn", "use_keepout_zones", "use_speed_zones"}, FALSE, FALSE)

\* ExecuteProcess(cmd=['xacro', '-o', world_sdf, ['headless:=', headless], world])
world_sdf_xacro ==
    Action("world_sdf_xacro", "exec", NoGuard, "", "", EmptyMap,
           {"headless", "world"}, FALSE, FALSE)

\* ExecuteProcess(cmd=['gz', 'sim', '-r', '-s', world_sdf], condition=...)
\* the gazebo server started whatever use_simulator says
gazebo_server_Unguarded ==
    Action("gazebo_server", "exec", NoGuard, "", "",
           EmptyMap, {}, FALSE, FALSE)

gazebo_server ==
    Action("gazebo_server", "exec", IfCondition("use_simulator"), "", "",
           EmptyMap, {}, FALSE, FALSE)

\* RegisterEventHandler(OnShutdown(on_shutdown=[OpaqueFunction(os.remove(world_sdf))]))
remove_temp_sdf_file ==
    Action("remove_temp_sdf_file", "hook", NoGuard, "", "", EmptyMap, {},
           FALSE, FALSE)

\* AppendEnvironmentVariable('GZ_SIM_RESOURCE_PATH', <sim_dir>/worlds)
set_env_vars_resources ==
    Action("set_env_vars_resources", "env", NoGuard, "", "worlds", EmptyMap, {},
           FALSE, FALSE)

\* the client guarded by use_simulator alone
gazebo_client_ServerGuardOnly ==
    Action("gazebo_client", "include", IfCondition("use_simulator"),
           "", "", ("gz_args" :> Lit("-v4 -g ")), {}, FALSE, FALSE)

gazebo_client ==
    Action("gazebo_client", "include", IfAndNot("use_simulator", "headless"),
           "", "", ("gz_args" :> Lit("-v4 -g ")), {}, FALSE, FALSE)

gz_robot ==
    Action("gz_robot", "include", NoGuard, "", "",
           ("namespace" :> LaunchConfiguration("namespace"))
           @@ ("use_simulator" :> LaunchConfigAsBool("use_simulator"))
           @@ ("use_sim_time" :> LaunchConfigAsBool("use_sim_time"))
           @@ ("robot_name" :> LaunchConfiguration("robot_name"))
           @@ ("robot_sdf" :> LaunchConfiguration("robot_sdf"))
           @@ ("x_pose" :> LaunchConfigurationDefault("x_pose", "-8.00"))
           @@ ("y_pose" :> LaunchConfigurationDefault("y_pose", "0.00"))
           @@ ("z_pose" :> LaunchConfigurationDefault("z_pose", "0.01"))
           @@ ("roll" :> LaunchConfigurationDefault("roll", "0.00"))
           @@ ("pitch" :> LaunchConfigurationDefault("pitch", "0.00"))
           @@ ("yaw" :> LaunchConfigurationDefault("yaw", "0.00")),
           {"namespace", "use_simulator", "use_sim_time", "robot_name",
            "robot_sdf"}, FALSE, FALSE)

\* the hook added after the gazebo server instead of before it
SimActions_HookAfterServer ==
    SimDeclarations \o
    << set_env_vars_resources, world_sdf_xacro, gz_robot, gazebo_server,
       remove_temp_sdf_file, gazebo_client, start_robot_state_publisher_cmd,
       rviz_cmd, bringup_cmd >>

\* the same description with ld.add_action(gazebo_server) written twice
SimActions_ServerAddedTwice ==
    SimDeclarations \o
    << set_env_vars_resources, world_sdf_xacro, remove_temp_sdf_file, gz_robot,
       gazebo_server, gazebo_server, gazebo_client,
       start_robot_state_publisher_cmd, rviz_cmd, bringup_cmd >>

\* the environment variable appended after the xacro process is started
SimActions_EnvAfterXacro ==
    SimDeclarations \o
    << world_sdf_xacro, set_env_vars_resources, remove_temp_sdf_file, gz_robot,
       gazebo_server, gazebo_client, start_robot_state_publisher_cmd, rviz_cmd,
       bringup_cmd >>

\* ld.add_action(...) in the order of the file
SimActions ==
    SimDeclarations \o
    << set_env_vars_resources, world_sdf_xacro, remove_temp_sdf_file, gz_robot,
       gazebo_server, gazebo_client, start_robot_state_publisher_cmd, rviz_cmd,
       bringup_cmd >>

(***************************************************************************)
(* tb4_loopback_simulation_launch.py                                       *)
(***************************************************************************)
\* the description without ld.add_action(declare_use_respawn_cmd)
LoopDeclarations_UseRespawnUndeclared == <<
    DeclareLaunchArgument("declare_namespace_cmd", "namespace", ""),
    DeclareLaunchArgument("declare_map_yaml_cmd", "map", "maps/depot.yaml"),
    DeclareLaunchArgument("declare_graph_file_cmd", "graph",
                          "graphs/depot_graph.geojson"),
    DeclareLaunchArgument("declare_params_file_cmd", "params_file",
                          "params/nav2_params.yaml"),
    DeclareLaunchArgument("declare_autostart_cmd", "autostart", "true"),
    DeclareLaunchArgument("declare_use_composition_cmd", "use_composition", "True"),
    DeclareLaunchArgument("declare_rviz_config_file_cmd", "rviz_config_file",
                          "rviz/nav2_default_view.rviz"),
    DeclareLaunchArgument("declare_use_robot_state_pub_cmd", "use_robot_state_pub",
                          "True"),
    DeclareLaunchArgument("declare_use_rviz_cmd", "use_rviz", "True") >>

LoopDeclarations == <<
    DeclareLaunchArgument("declare_namespace_cmd", "namespace", ""),
    DeclareLaunchArgument("declare_map_yaml_cmd", "map", "maps/depot.yaml"),
    DeclareLaunchArgument("declare_graph_file_cmd", "graph",
                          "graphs/depot_graph.geojson"),
    DeclareLaunchArgument("declare_params_file_cmd", "params_file",
                          "params/nav2_params.yaml"),
    DeclareLaunchArgument("declare_autostart_cmd", "autostart", "true"),
    DeclareLaunchArgument("declare_use_composition_cmd", "use_composition", "True"),
    DeclareLaunchArgument("declare_rviz_config_file_cmd", "rviz_config_file",
                          "rviz/nav2_default_view.rviz"),
    DeclareLaunchArgument("declare_use_robot_state_pub_cmd", "use_robot_state_pub",
                          "True"),
    DeclareLaunchArgument("declare_use_rviz_cmd", "use_rviz", "True"),
    DeclareLaunchArgument("declare_use_respawn_cmd", "use_respawn", "False") >>

Loop_start_robot_state_publisher_cmd ==
    Action("start_robot_state_publisher_cmd", "node",
           IfCondition("use_robot_state_pub"), "", "", EmptyMap,
           {"namespace"}, TRUE, FALSE)

Loop_rviz_cmd ==
    Action("rviz_cmd", "include", IfCondition("use_rviz"), "", "",
           ("namespace" :> LaunchConfiguration("namespace"))
           @@ ("use_sim_time" :> Lit("True"))
           @@ ("rviz_config" :> LaunchConfiguration("rviz_config_file")),
           {"namespace", "rviz_config_file"}, FALSE, FALSE)

\* the bringup include handing over the packaged map instead of the argument
Loop_bringup_cmd_FixedMap ==
    Action("bringup_cmd", "include", NoGuard, "", "",
           ("namespace" :> LaunchConfiguration("namespace"))
           @@ ("map" :> Lit("maps/depot.yaml"))
           @@ ("graph" :> LaunchConfiguration("graph"))
           @@ ("use_sim_time" :> Lit("True"))
           @@ ("params_file" :> LaunchConfiguration("params_file"))
           @@ ("autostart" :> LaunchConfigAsBool("autostart"))
           @@ ("use_composition" :> LaunchConfigAsBool("use_composition"))
           @@ ("use_respawn" :> LaunchConfigAsBool("use_respawn"))
           @@ ("use_localization" :> Lit("False")),
           {"namespace", "map", "graph", "params_file", "autostart",
            "use_composition", "use_respawn"}, FALSE, FALSE)

Loop_bringup_cmd ==
    Action("bringup_cmd", "include", NoGuard, "", "",
           ("namespace" :> LaunchConfiguration("namespace"))
           @@ ("map" :> LaunchConfiguration("map"))
           @@ ("graph" :> LaunchConfiguration("graph"))
           @@ ("use_sim_time" :> Lit("True"))
           @@ ("params_file" :> LaunchConfiguration("params_file"))
           @@ ("autostart" :> LaunchConfigAsBool("autostart"))
           @@ ("use_composition" :> LaunchConfigAsBool("use_composition"))
           @@ ("use_respawn" :> LaunchConfigAsBool("use_respawn"))
           @@ ("use_localization" :> Lit("False")),
           {"namespace", "map", "graph", "params_file", "autostart",
            "use_composition", "use_respawn"}, FALSE, FALSE)

\* the include also forwarding the parent's namespace
loopback_sim_cmd_ForwardsNamespace ==
    Action("loopback_sim_cmd", "include", NoGuard, "", "",
           ("params_file" :> LaunchConfiguration("params_file"))
           @@ ("scan_frame_id" :> Lit("rplidar_link"))
           @@ ("namespace" :> LaunchConfiguration("namespace")),
           {"params_file", "namespace"}, FALSE, FALSE)

loopback_sim_cmd ==
    Action("loopback_sim_cmd", "include", NoGuard, "", "",
           ("params_file" :> LaunchConfiguration("params_file"))
           @@ ("scan_frame_id" :> Lit("rplidar_link")),
           {"params_file"}, FALSE, FALSE)

static_publisher_cmd ==
    Action("static_publisher_cmd", "node", NoGuard, "", "", EmptyMap, {},
           FALSE, FALSE)

\* the children of GroupAction start_map_server, in declared order
SetParameter_use_sim_time ==
    Action("SetParameter", "setparam", NoGuard, "use_sim_time", "True",
           EmptyMap, {}, FALSE, FALSE)

map_server ==
    Action("map_server", "node", NoGuard, "", "", EmptyMap,
           {"use_respawn", "params_file", "namespace", "map"}, FALSE, TRUE)

lifecycle_manager_map_server ==
    Action("lifecycle_manager_map_server", "node", NoGuard, "", "", EmptyMap,
           {"params_file", "namespace", "autostart"}, FALSE, TRUE)

\* the lifecycle manager listed before the node it manages
start_map_server_actions_ManagerFirst ==
    << SetParameter_use_sim_time, lifecycle_manager_map_server, map_server >>

\* the parameter override listed after the nodes
start_map_server_actions_SetParameterLast ==
    << map_server, lifecycle_manager_map_server, SetParameter_use_sim_time >>

start_map_server_actions ==
    << SetParameter_use_sim_time, map_server, lifecycle_manager_map_server >>

start_map_server ==
    Action("start_map_server", "group", NoGuard, "", "", EmptyMap, {},
           FALSE, FALSE)

\* the loopback simulator added before the map-server group
LoopActions_SimulatorBeforeMapServer ==
    LoopDeclarations \o
    << Loop_start_robot_state_publisher_cmd, static_publisher_cmd,
       loopback_sim_cmd, start_map_server, Loop_rviz_cmd, Loop_bringup_cmd >>

\* ld.add_action(...) in the order of the file
LoopActions ==
    LoopDeclarations \o
    << Loop_start_robot_state_publisher_cmd, static_publisher_cmd,
       start_map_server, loopback_sim_cmd, Loop_rviz_cmd, Loop_bringup_cmd >>

\* the action list a walk frame refers to
List(l) ==
    CASE l = "sim" -> SimActions
      [] l = "loop" -> LoopActions
      [] l = "start_map_server" -> start_map_server_actions

(***************************************************************************)
(* Names and bounds.                                                       *)
(***************************************************************************)
Range(f) == {f[i] : i \in DOMAIN f}

AllActions == Range(SimActions) \cup Range(LoopActions)
                \cup Range(start_map_server_actions)

ActionNames == {a.name : a \in AllActions}
ProcNames == {a.name : a \in {b \in AllActions :
                                b.kind \in {"exec", "node", "include"}}}
IncludeNames == {a.name : a \in {b \in AllActions : b.kind = "include"}}

\* the launch configurations read through LaunchConfigAsBool
BoolArgs == {"slam", "use_sim_time", "autostart", "use_composition",
             "use_respawn", "use_keepout_zones", "use_speed_zones",
             "use_simulator", "use_robot_state_pub", "use_rviz", "headless"}

\* the namespaces of the run and of the run it is compared with
Namespaces == {"", "robot1"}

\* the arguments given on the command line, and the values tried for each
CliArgs == {"namespace", "map", "use_simulator", "headless",
            "use_robot_state_pub", "use_rviz", "autostart", "use_respawn"}

\* at most this many arguments are given on the command line of one run
MaxOverrides == 1

\* the two arguments of the compound guard of the gazebo client, which are
\* also given together
GazeboArgs == {"use_simulator", "headless"}

CliChoices(s, n) ==
    CASE n = "map" -> {"unset", "maps/warehouse.yaml"}
      [] n \in {"headless", "use_simulator"} /\ s = "sim"
            -> {"unset", "False", "maybe"}
      [] n = "autostart" /\ s = "loop" -> {"unset", "False"}
      [] n = "use_respawn" /\ s = "loop" -> {"unset", "True"}
      [] n \in {"use_robot_state_pub", "use_rviz"}
            -> {"unset", "False", "maybe"}
      [] OTHER -> {"unset"}

(***************************************************************************)
(* Substitution resolution.                                                *)
(***************************************************************************)
Unresolved == "<unresolved>"
Invalid == "<invalid>"

\* a reading that takes every value other than false as true
AsBool_Coerce(v) ==
    IF v \in {"False", "false"} THEN "False" ELSE "True"

\* LaunchConfigAsBool: the boolean reading of a launch configuration value
AsBool(v) ==
    IF v \in {"True", "true"} THEN "True"
    ELSE IF v \in {"False", "false"} THEN "False"
    ELSE Invalid

Resolve(e, lc) ==
    CASE e.t = "lit" -> e.v
      [] e.t = "var" -> IF e.v \in DOMAIN lc THEN lc[e.v] ELSE Unresolved
      [] e.t = "vardef" -> IF e.v \in DOMAIN lc THEN lc[e.v] ELSE e.d
      [] e.t = "bool" -> IF e.v \in DOMAIN lc THEN AsBool(lc[e.v]) ELSE Unresolved

\* a guard's value: "True", "False", or an error
EvalGuard(g, lc) ==
    CASE g.t = "none" -> "True"
      [] g.t = "if" -> Resolve(LaunchConfigAsBool(g.v), lc)
      [] g.t = "and_not" ->
            LET a == Resolve(LaunchConfigAsBool(g.v), lc)
                b == Resolve(LaunchConfigAsBool(g.d), lc)
            IN  IF a \notin {"True", "False"} THEN a
                ELSE IF b \notin {"True", "False"} THEN b
                ELSE IF a = "True" /\ b = "False" THEN "True" ELSE "False"

\* the payload of an action refers to a variable that does not resolve
PayloadError(a, lc) ==
    \/ \E n \in a.uses :
          \/ n \notin DOMAIN lc
          \/ n \in BoolArgs /\ AsBool(lc[n]) = Invalid
    \/ \E k \in DOMAIN a.argmap :
          Resolve(a.argmap[k], lc) \in {Unresolved, Invalid}

\* resolution of the action depends on something outside the description:
\* an included session file, an external command, a parameter template
Fallible(a) == a.kind = "include" \/ a.cmdsub \/ a.template

\* the context an included session starts from
Seed(argmap, lc) == [k \in DOMAIN argmap |-> Resolve(argmap[k], lc)]

\* what an included session adds to its own context while it resolves
ChildLocals == ("included_var" :> "set")

(***************************************************************************)
(* Initial state: the description is built, the command line is read.      *)
(***************************************************************************)
CliLc(c) == [n \in {m \in DOMAIN c : c[m] # "unset"} |-> c[n]]

Init ==
    /\ session \in {"sim", "loop"}
    /\ cli \in [CliArgs -> {"unset", "True", "False", "maybe",
                             "maps/warehouse.yaml"}]
    /\ \A n \in CliArgs : cli[n] \in CliChoices(session, n)
    /\ LET given == {n \in CliArgs : cli[n] # "unset"}
       IN  Cardinality(given) <= MaxOverrides \/ given = GazeboArgs
    /\ twinNs \in Namespaces \ {""}
    /\ phase = "resolving"
    /\ stack = << [list |-> session, i |-> 1] >>
    /\ ctxStack = << [lc |-> CliLc(cli), params |-> EmptyMap] >>
    /\ resolved = [n \in ActionNames |-> 0]
    /\ proc = [p \in ProcNames |-> "none"]
    /\ ctxSeen = [n \in ActionNames |-> [lc |-> EmptyMap, params |-> EmptyMap]]
    /\ childCtx = [p \in IncludeNames |-> [seeded |-> FALSE, m |-> EmptyMap]]
    /\ childCtxTwin = [p \in IncludeNames |-> [seeded |-> FALSE, m |-> EmptyMap]]
    /\ worldFile = FALSE
    /\ hooks = << >>
    /\ hookRuns = 0
    /\ cleanupFailed = FALSE
    /\ cmdRuns = [n \in ActionNames |-> 0]
    /\ artifacts = {}
    /\ env = << "inherited" >>
    /\ envWrites = 0
    /\ lifecycle = "unconfigured"
    /\ activated = FALSE
    /\ triggered = FALSE
    /\ respawnTimer = -1
    /\ respawns = 0
    /\ signalled = {}
    /\ cause = "none"
    /\ failedAt = "none"
    /\ status = -1

constVars == <<session, cli, twinNs>>
inclVars == <<childCtx, childCtxTwin>>
fileVars == <<worldFile, hooks, hookRuns, cleanupFailed>>
envVars == <<env, envWrites>>
endVars == <<phase, cause, failedAt, status>>
lifeVars == <<lifecycle, activated>>
respawnVars == <<respawnTimer, respawns>>

(***************************************************************************)
(* The walk of the action forest.                                          *)
(***************************************************************************)
Top == Head(stack)
AtEnd == Top.i > Len(List(Top.list))
Cur == List(Top.list)[Top.i]
Ctx == Head(ctxStack)
Lc == Ctx.lc

Resolving == phase = "resolving" /\ ~AtEnd
GuardTrue == EvalGuard(Cur.guard, Lc) = "True"
Resolvable == Resolving /\ GuardTrue /\ ~PayloadError(Cur, Lc)

Advance == stack' = << [Top EXCEPT !.i = Top.i + 1] >> \o Tail(stack)
Count ==
    /\ resolved' = [resolved EXCEPT ![Cur.name] = @ + 1]
    /\ ctxSeen' = [ctxSeen EXCEPT ![Cur.name] = Ctx]

\* a resolution-time error that is reported while the walk goes on
Abort_SkipAndContinue ==
    /\ cause' = "error"
    /\ failedAt' = Cur.name
    /\ Advance
    /\ UNCHANGED <<phase, status, ctxStack, resolved, ctxSeen>>

\* a resolution-time error abandons the forest and starts the shutdown
Abort ==
    /\ phase' = "shutdown"
    /\ cause' = "error"
    /\ failedAt' = Cur.name
    /\ UNCHANGED <<status, stack, ctxStack, resolved, ctxSeen>>

\* DeclareLaunchArgument: the default is bound unless the command line set it
ResolveDeclare ==
    /\ Resolving /\ Cur.kind = "declare"
    /\ ctxStack' = << [Ctx EXCEPT !.lc =
                          IF Cur.arg \in DOMAIN Lc THEN Lc
                          ELSE Lc @@ (Cur.arg :> Cur.default)] >>
                   \o Tail(ctxStack)
    /\ Count /\ Advance
    /\ UNCHANGED <<constVars, respawnVars, triggered, inclVars, fileVars, envVars, endVars, proc, cmdRuns, artifacts, lifeVars, signalled>>

\* a guard that resolves to false: the action is skipped
SkipGuarded ==
    /\ Resolving /\ EvalGuard(Cur.guard, Lc) = "False"
    /\ Advance
    /\ UNCHANGED <<constVars, respawnVars, triggered, inclVars, fileVars, envVars, endVars, proc,
                   ctxSeen, cmdRuns, artifacts, lifeVars, signalled,
                   ctxStack, resolved>>

\* a guard that is not boolean
GuardError ==
    /\ Resolving /\ EvalGuard(Cur.guard, Lc) \notin {"True", "False"}
    /\ Abort
    /\ UNCHANGED <<constVars, respawnVars, triggered, inclVars, fileVars, envVars, proc,
                   ctxSeen, cmdRuns, artifacts, lifeVars, signalled>>

\* the action's own resolution raises: an unresolved or invalid variable, a
\* missing session file, a failing external command, a bad parameter template
ResolveFail ==
    /\ Resolving /\ GuardTrue /\ Cur.kind # "declare"
    /\ PayloadError(Cur, Lc) \/ Fallible(Cur)
    /\ cmdRuns' = IF Cur.cmdsub /\ ~PayloadError(Cur, Lc)
                  THEN [cmdRuns EXCEPT ![Cur.name] = @ + 1] ELSE cmdRuns
    /\ Abort
    /\ UNCHANGED <<constVars, respawnVars, triggered, inclVars, fileVars, envVars, proc,
                   ctxSeen, artifacts, lifeVars, signalled>>

\* AppendEnvironmentVariable
ResolveEnv ==
    /\ Resolvable /\ Cur.kind = "env"
    /\ env' = Append(env, Cur.default)
    /\ envWrites' = envWrites + 1
    /\ Count /\ Advance
    /\ UNCHANGED <<constVars, respawnVars, triggered, inclVars, fileVars, endVars, proc,
                   cmdRuns, artifacts, lifeVars, signalled, ctxStack>>

\* ExecuteProcess and Node: the process is started and resolution goes on
ResolveSpawn ==
    /\ Resolvable /\ Cur.kind \in {"exec", "node"}
    /\ proc' = [proc EXCEPT ![Cur.name] = "running"]
    /\ cmdRuns' = IF Cur.cmdsub THEN [cmdRuns EXCEPT ![Cur.name] = @ + 1]
                  ELSE cmdRuns
    /\ artifacts' = IF Cur.template THEN artifacts \cup {Cur.name} ELSE artifacts
    /\ Count /\ Advance
    /\ UNCHANGED <<constVars, respawnVars, triggered, inclVars, fileVars, envVars, endVars,
                   lifeVars, signalled, ctxStack>>

\* RegisterEventHandler(OnShutdown(...))
ResolveHook ==
    /\ Resolvable /\ Cur.kind = "hook"
    /\ hooks' = Append(hooks, Cur.name)
    /\ Count /\ Advance
    /\ UNCHANGED <<constVars, respawnVars, triggered, inclVars, envVars, endVars, proc,
                   cmdRuns, artifacts, lifeVars, signalled, ctxStack,
                   worldFile, hookRuns, cleanupFailed>>

\* the launch configurations of the run that differs in its namespace only
TwinLc(lc) == [n \in DOMAIN lc |-> IF n = "namespace" THEN twinNs ELSE lc[n]]

\* IncludeLaunchDescription: the included session is resolved in a context of
\* its own and its processes are started
ResolveInclude ==
    /\ Resolvable /\ Cur.kind = "include"
    /\ childCtx' = [childCtx EXCEPT ![Cur.name] =
                      [seeded |-> TRUE, m |-> ChildLocals @@ Seed(Cur.argmap, Lc)]]
    /\ childCtxTwin' = [childCtxTwin EXCEPT ![Cur.name] =
                      [seeded |-> TRUE,
                       m |-> ChildLocals @@ Seed(Cur.argmap, TwinLc(Lc))]]
    /\ proc' = [proc EXCEPT ![Cur.name] = "running"]
    /\ Count /\ Advance
    /\ UNCHANGED <<constVars, respawnVars, triggered, fileVars, envVars, endVars, cmdRuns, artifacts,
                   lifeVars, signalled, ctxStack>>

\* GroupAction: a child context is pushed and the children are walked
EnterGroup ==
    /\ Resolvable /\ Cur.kind = "group"
    /\ stack' = << [list |-> Cur.name, i |-> 1],
                   [Top EXCEPT !.i = Top.i + 1] >> \o Tail(stack)
    /\ ctxStack' = << Ctx >> \o ctxStack
    /\ Count
    /\ UNCHANGED <<constVars, respawnVars, triggered, inclVars, fileVars, envVars, endVars, proc, cmdRuns, artifacts, lifeVars, signalled>>

\* SetParameter: a global parameter of the current context
ResolveSetParameter ==
    /\ Resolvable /\ Cur.kind = "setparam"
    /\ ctxStack' = << [Ctx EXCEPT !.params =
                          (Cur.arg :> Cur.default) @@ Ctx.params] >>
                   \o Tail(ctxStack)
    /\ Count /\ Advance
    /\ UNCHANGED <<constVars, respawnVars, triggered, inclVars, fileVars, envVars, endVars, proc, cmdRuns, artifacts, lifeVars, signalled>>

\* the end of a group: its context is popped
LeaveGroup ==
    /\ phase = "resolving" /\ AtEnd /\ Len(stack) > 1
    /\ stack' = Tail(stack)
    /\ ctxStack' = Tail(ctxStack)
    /\ UNCHANGED <<constVars, respawnVars, triggered, inclVars, fileVars, envVars, endVars, proc,
                   ctxSeen, cmdRuns, artifacts, lifeVars, signalled,
                   resolved>>

\* the end of the top-level list
FinishResolution ==
    /\ phase = "resolving" /\ AtEnd /\ Len(stack) = 1
    /\ phase' = "running"
    /\ UNCHANGED <<constVars, respawnVars, triggered, inclVars, fileVars, envVars, proc, ctxSeen,
                   cmdRuns, artifacts, lifeVars, signalled, resolved, stack,
                   ctxStack, cause, failedAt, status>>

(***************************************************************************)
(* The spawned processes, which run concurrently with the walk.            *)
(***************************************************************************)
Running(p) == proc[p] = "running"

LifecycleAfter(p) == IF p = "map_server" THEN "unconfigured" ELSE lifecycle

\* xacro -o world_sdf: the world file is written and the process exits
XacroWrite ==
    /\ Running("world_sdf_xacro")
    /\ worldFile' = TRUE
    /\ proc' = [proc EXCEPT !["world_sdf_xacro"] = "exited"]
    /\ UNCHANGED <<constVars, respawnVars, triggered, inclVars, envVars, endVars, ctxSeen, cmdRuns,
                   artifacts, lifeVars, signalled, resolved, stack, ctxStack,
                   hooks, hookRuns, cleanupFailed>>

\* an included session ends by itself: its processes have exited with status 0
ProcExit(p) ==
    /\ Running(p) /\ p \in IncludeNames
    /\ proc' = [proc EXCEPT ![p] = "exited"]
    /\ lifecycle' = LifecycleAfter(p)
    /\ UNCHANGED <<activated, constVars, respawnVars, triggered, inclVars, fileVars, envVars, endVars, ctxSeen,
                   cmdRuns, artifacts, signalled, resolved, stack, ctxStack>>

\* a map_server node declared without a respawn policy
map_server_respawn_Never == Lit("False")

\* a map_server node declared with respawn=True
map_server_respawn_Always == Lit("True")

\* respawn=use_respawn, respawn_delay=2.0 of the map_server node
map_server_respawn == LaunchConfigAsBool("use_respawn")

respawn_delay == 2

\* map_server is respawned at most this many times in one run
MaxRespawns == 1

\* the respawn policy of process p as resolved when the process was declared
Respawns(p) ==
    /\ p = "map_server"
    /\ Resolve(map_server_respawn, ctxSeen[p].lc) = "True"

\* a process of the session itself exits abnormally (xacro: without writing
\* its output); one with a respawn policy is scheduled for a respawn unless
\* the session is shutting down
ProcCrash(p) ==
    /\ Running(p) /\ p \notin IncludeNames
    /\ Respawns(p) => respawns < MaxRespawns
    /\ proc' = [proc EXCEPT ![p] = "crashed"]
    /\ lifecycle' = LifecycleAfter(p)
    /\ respawnTimer' = IF Respawns(p) /\ phase \in {"resolving", "running"}
                       THEN respawn_delay ELSE respawnTimer
    /\ UNCHANGED <<activated, constVars, respawns, triggered, inclVars,
                   fileVars, envVars, endVars, ctxSeen, cmdRuns, artifacts,
                   signalled, resolved, stack, ctxStack>>

\* one second of the respawn delay passes
Tick ==
    /\ phase \in {"resolving", "running"}
    /\ respawnTimer > 0
    /\ respawnTimer' = respawnTimer - 1
    /\ UNCHANGED <<constVars, respawns, triggered, inclVars, fileVars, envVars,
                   endVars, proc, ctxSeen, cmdRuns, artifacts, lifeVars,
                   signalled, resolved, stack, ctxStack>>

\* the delay is over: the crashed process is started again
Respawn ==
    /\ phase \in {"resolving", "running"}
    /\ respawnTimer = 0
    /\ proc["map_server"] = "crashed"
    /\ proc' = [proc EXCEPT !["map_server"] = "running"]
    /\ respawnTimer' = -1
    /\ respawns' = respawns + 1
    /\ UNCHANGED <<constVars, triggered, inclVars, fileVars, envVars, endVars,
                   ctxSeen, cmdRuns, artifacts, lifeVars, signalled, resolved,
                   stack, ctxStack>>

(***************************************************************************)
(* The lifecycle manager of the map server.                                *)
(***************************************************************************)
RootLc == ctxStack[Len(ctxStack)].lc

\* a manager started with autostart: True
Autostart_Always == TRUE

Autostart ==
    /\ "autostart" \in DOMAIN RootLc
    /\ AsBool(RootLc["autostart"]) = "True"

Managing ==
    /\ Running("lifecycle_manager_map_server")
    /\ Running("map_server")
    /\ Autostart \/ triggered

\* with autostart false the manager waits for a request from outside
ExternalTrigger ==
    /\ Running("lifecycle_manager_map_server")
    /\ ~Autostart /\ ~triggered
    /\ triggered' = TRUE
    /\ UNCHANGED <<constVars, respawnVars, inclVars, fileVars, envVars,
                   endVars, proc, ctxSeen, cmdRuns, artifacts, lifeVars,
                   signalled, resolved, stack, ctxStack>>

Configure ==
    /\ Managing /\ lifecycle = "unconfigured"
    /\ lifecycle' = "inactive"
    /\ UNCHANGED <<activated, constVars, respawnVars, triggered, inclVars, fileVars, envVars, endVars, proc,
                   ctxSeen, cmdRuns, artifacts, signalled, resolved, stack,
                   ctxStack>>

Activate ==
    /\ Managing /\ lifecycle = "inactive"
    /\ lifecycle' = "active"
    /\ activated' = TRUE
    /\ UNCHANGED <<constVars, respawnVars, triggered, inclVars, fileVars, envVars, endVars, proc,
                   ctxSeen, cmdRuns, artifacts, signalled, resolved, stack,
                   ctxStack>>

(***************************************************************************)
(* Termination of the session.                                             *)
(***************************************************************************)
BeginShutdown(why) ==
    /\ phase' = "shutdown"
    /\ cause' = why
    /\ UNCHANGED <<constVars, respawnVars, triggered, inclVars, fileVars, envVars, proc, ctxSeen,
                   cmdRuns, artifacts, lifeVars, signalled, resolved, stack,
                   ctxStack, failedAt, status>>

\* an external interrupt, during resolution or after it
Interrupt ==
    /\ phase \in {"resolving", "running"}
    /\ BeginShutdown("interrupt")

\* normal completion: nothing is left running
Idle ==
    /\ phase = "running"
    /\ \A p \in ProcNames : ~Running(p)
    /\ respawnTimer = -1
    /\ BeginShutdown("idle")

\* os.remove(world_sdf): the file after the call, and whether the call raised
os_remove(exists) == [exists |-> FALSE, raised |-> ~exists]

\* a hook that raises ends the session on the spot
RunHook_FailureStopsShutdown ==
    /\ phase = "shutdown" /\ hooks # << >>
    /\ LET r == os_remove(worldFile)
       IN  /\ worldFile' = r.exists
           /\ cleanupFailed' = (cleanupFailed \/ r.raised)
           /\ phase' = IF r.raised THEN "exited" ELSE phase
    /\ hooks' = SubSeq(hooks, 1, Len(hooks) - 1)
    /\ hookRuns' = hookRuns + 1
    /\ UNCHANGED <<constVars, respawnVars, triggered, inclVars, envVars,
                   cause, failedAt, status, proc, ctxSeen, cmdRuns, artifacts,
                   lifeVars, signalled, resolved, stack, ctxStack>>

\* the shutdown hooks run, the most recently registered first
RunHook ==
    /\ phase = "shutdown" /\ hooks # << >>
    /\ LET r == os_remove(worldFile)
       IN  /\ worldFile' = r.exists
           /\ cleanupFailed' = (cleanupFailed \/ r.raised)
    /\ hooks' = SubSeq(hooks, 1, Len(hooks) - 1)
    /\ hookRuns' = hookRuns + 1
    /\ UNCHANGED <<constVars, respawnVars, triggered, inclVars, envVars, endVars, proc, ctxSeen,
                   cmdRuns, artifacts, lifeVars, signalled, resolved, stack,
                   ctxStack>>

\* processes told to terminate without waiting for the hooks
Terminate_BeforeHooks(p) ==
    /\ phase = "shutdown"
    /\ Running(p)
    /\ proc' = [proc EXCEPT ![p] = "terminated"]
    /\ signalled' = signalled \cup {p}
    /\ lifecycle' = LifecycleAfter(p)
    /\ UNCHANGED <<activated, constVars, respawnVars, triggered, inclVars, fileVars, envVars, endVars,
                   ctxSeen, cmdRuns, artifacts, resolved, stack, ctxStack>>

\* then every process still running is told to terminate
Terminate(p) ==
    /\ phase = "shutdown" /\ hooks = << >>
    /\ Running(p)
    /\ proc' = [proc EXCEPT ![p] = "terminated"]
    /\ signalled' = signalled \cup {p}
    /\ lifecycle' = LifecycleAfter(p)
    /\ UNCHANGED <<activated, constVars, respawnVars, triggered, inclVars, fileVars, envVars, endVars, ctxSeen,
                   cmdRuns, artifacts, resolved, stack, ctxStack>>

ExitStatus ==
    IF cause = "error" \/ \E p \in ProcNames : proc[p] = "crashed" THEN 1 ELSE 0

\* then the session exits
Exit ==
    /\ phase = "shutdown" /\ hooks = << >>
    /\ \A p \in ProcNames : ~Running(p)
    /\ phase' = "exited"
    /\ status' = ExitStatus
    /\ UNCHANGED <<constVars, respawnVars, triggered, inclVars, fileVars, envVars, proc, ctxSeen,
                   cmdRuns, artifacts, lifeVars, signalled, resolved, stack,
                   ctxStack, cause, failedAt>>

Next ==
    \/ ResolveDeclare
    \/ SkipGuarded
    \/ GuardError
    \/ ResolveFail
    \/ ResolveEnv
    \/ ResolveSpawn
    \/ ResolveHook
    \/ ResolveInclude
    \/ EnterGroup
    \/ ResolveSetParameter
    \/ LeaveGroup
    \/ FinishResolution
    \/ XacroWrite
    \/ \E p \in ProcNames : ProcExit(p)
    \/ \E p \in ProcNames : ProcCrash(p)
    \/ Tick
    \/ Respawn
    \/ ExternalTrigger
    \/ Configure
    \/ Activate
    \/ Interrupt
    \/ Idle
    \/ RunHook
    \/ \E p \in ProcNames : Terminate(p)
    \/ Exit

Spec == Init /\ [][Next]_vars

\* the engine keeps going: hooks, terminations and the exit of a shutdown are
\* carried out, the respawn timer runs, the lifecycle manager makes its
\* transitions
FairSpec ==
    /\ Spec
    /\ WF_vars(RunHook)
    /\ WF_vars(\E p \in ProcNames : Terminate(p))
    /\ WF_vars(Exit)
    /\ WF_vars(Tick)
    /\ WF_vars(Respawn)
    /\ WF_vars(Configure)
    /\ WF_vars(Activate)

(***************************************************************************)
(* Properties.                                                             *)
(***************************************************************************)
Declarations(s) == IF s = "sim" THEN SimDeclarations ELSE LoopDeclarations

Declared(s, n) == \E a \in Range(Declarations(s)) : a.arg = n

DefaultOf(s, n) == (CHOOSE a \in Range(Declarations(s)) : a.arg = n).default

\* the value the run gives to argument n: the command line's, else the default
Effective(n) ==
    IF n \in DOMAIN cli /\ cli[n] # "unset" THEN cli[n]
    ELSE DefaultOf(session, n)

BoolOf(n) == IF Declared(session, n) THEN AsBool(Effective(n)) ELSE Invalid

Registered == resolved["remove_temp_sdf_file"] > 0

\* the actions of the simulation session declared after the xacro transform
AfterTransform ==
    {"remove_temp_sdf_file", "gz_robot", "gazebo_server", "gazebo_client",
     "start_robot_state_publisher_cmd", "rviz_cmd", "bringup_cmd"}

\* C1: in the simulation session the removal of the temporary world file has
\* been executed exactly once when the session has exited, whatever ended it
\* (completion, interrupt, resolution error), also when it ended before the
\* hook was registered.
C1_CleanupFiresExactlyOnce ==
    (session = "sim" /\ phase = "exited") => hookRuns = 1

\* C2: in the simulation session, when the hook has been registered and the
\* session was then interrupted, the temporary world file does not exist once
\* the session has exited, however the xacro process interleaves with the
\* shutdown.
C2_InterruptRemovesWorldFile ==
    (session = "sim" /\ phase = "exited" /\ cause = "interrupt" /\ Registered)
        => ~worldFile

\* C3: in the simulation session no action declared after the xacro transform
\* (the gazebo server among them) is resolved unless the xacro process has
\* exited after writing the world file.
C3_TransformBlocksResolution ==
    (session = "sim" /\ \E a \in AfterTransform : resolved[a] > 0)
        => proc["world_sdf_xacro"] = "exited"

\* C4: in the simulation session, whenever the gazebo server has been started
\* the shutdown hook that removes the world file has already been registered.
C4_HookBeforeGazeboServer ==
    (session = "sim" /\ proc["gazebo_server"] # "none") => Registered

C4_Witness ==
    session = "sim" /\ Running("gazebo_server") /\ hooks # << >>

\* nothing has been done on behalf of action a
Untouched(a) ==
    /\ proc[a] = "none"
    /\ resolved[a] = 0
    /\ cmdRuns[a] = 0
    /\ a \notin artifacts
    /\ a \in IncludeNames => ~childCtx[a].seeded

\* C5: a guarded action whose guard resolves to false never starts its
\* process or included session, runs no external command of its payload and
\* creates no artifact: robot_state_publisher (use_robot_state_pub), the rviz
\* include (use_rviz), the gazebo server (use_simulator) and the gazebo client
\* include (use_simulator and not headless).
C5_FalseGuardNoEffect ==
    /\ BoolOf("use_robot_state_pub") = "False"
          => Untouched("start_robot_state_publisher_cmd")
    /\ BoolOf("use_rviz") = "False" => Untouched("rviz_cmd")
    /\ (session = "sim" /\ BoolOf("use_simulator") = "False")
          => Untouched("gazebo_server")
    /\ (session = "sim"
        /\ \/ BoolOf("use_simulator") = "False"
              /\ BoolOf("headless") \in {"True", "False"}
           \/ BoolOf("use_simulator") = "True" /\ BoolOf("headless") = "True")
          => Untouched("gazebo_client")

C5_Witness ==
    /\ session = "sim" /\ phase = "running"
    /\ BoolOf("use_rviz") = "False"
    /\ BoolOf("use_simulator") = "True"
    /\ BoolOf("headless") = "True"
    /\ resolved["bringup_cmd"] = 1

\* the actions of the loopback session declared after the map-server group
Dependents == {"loopback_sim_cmd", "rviz_cmd", "bringup_cmd"}

\* C6 (as stated): no action declared after the map-server group is resolved
\* before map_server has completed the configure and activate transitions.
C6_DependentsWaitForActive ==
    (session = "loop" /\ \E d \in Dependents : resolved[d] > 0) => activated

\* C6 (amended): no action declared after the map-server group is resolved
\* before map_server and its lifecycle manager have both been started; the
\* activation of map_server is not awaited.
C6_DependentsAfterGroupStarted ==
    (session = "loop" /\ \E d \in Dependents : resolved[d] > 0)
        => /\ resolved["map_server"] = 1
           /\ resolved["lifecycle_manager_map_server"] = 1

C6_Witness ==
    /\ session = "loop"
    /\ resolved["loopback_sim_cmd"] = 1
    /\ Running("map_server") /\ Running("lifecycle_manager_map_server")
    /\ lifecycle = "unconfigured" /\ ~activated

\* C7: in the loopback session the lifecycle manager is started only after
\* the map_server node has been started, and every action that depends on the
\* map (loopback simulator, rviz, bringup) is resolved only after the
\* lifecycle manager has been started.
C7_ManagerAfterServerBeforeDependents ==
    session = "loop" =>
        /\ proc["lifecycle_manager_map_server"] # "none"
              => proc["map_server"] # "none"
        /\ \A d \in Dependents :
              proc[d] # "none" => proc["lifecycle_manager_map_server"] # "none"

C7_Witness ==
    /\ session = "loop"
    /\ Running("map_server") /\ Running("lifecycle_manager_map_server")
    /\ \A d \in Dependents : Running(d)

\* C8: in the loopback session map_server and lifecycle_manager_map_server
\* are resolved with use_sim_time = True in their context, and every top-level
\* action after the group is resolved against the very context the group was
\* entered with.
C8_GroupScope ==
    session = "loop" =>
        /\ \A c \in {"map_server", "lifecycle_manager_map_server"} :
              resolved[c] > 0 =>
                 /\ "use_sim_time" \in DOMAIN ctxSeen[c].params
                 /\ ctxSeen[c].params["use_sim_time"] = "True"
        /\ \A d \in Dependents :
              resolved[d] > 0 => ctxSeen[d] = ctxSeen["start_map_server"]

C8_Witness ==
    /\ session = "loop"
    /\ resolved["map_server"] = 1
    /\ resolved["lifecycle_manager_map_server"] = 1
    /\ \A d \in Dependents : resolved[d] = 1

\* C9: the context of the included loopback simulator session holds its two
\* mapped arguments (params_file, scan_frame_id) besides what the session sets
\* itself, it is the same in the run whose namespace differs, and no variable
\* set inside an included session appears in a context of the parent.
C9_IncludeIsolation ==
    /\ (session = "loop" /\ childCtx["loopback_sim_cmd"].seeded) =>
          /\ childCtx["loopback_sim_cmd"] = childCtxTwin["loopback_sim_cmd"]
          /\ DOMAIN childCtx["loopback_sim_cmd"].m
                = {"params_file", "scan_frame_id"} \cup DOMAIN ChildLocals
    /\ \A i \in DOMAIN ctxStack :
          DOMAIN ChildLocals \cap DOMAIN ctxStack[i].lc = {}

C9_Witness ==
    /\ session = "loop"
    /\ childCtx["loopback_sim_cmd"].seeded
    /\ childCtx["rviz_cmd"].seeded
    /\ childCtx["rviz_cmd"] # childCtxTwin["rviz_cmd"]
    /\ resolved["bringup_cmd"] = 1

\* C10: when the simulation session is interrupted, a process is told to
\* terminate only after every registered hook has run (the world file removal
\* exactly once if it was registered), and the session exits only after the
\* hooks have run and no process is left running.
C10_ShutdownOrder ==
    (session = "sim" /\ cause = "interrupt") =>
        /\ signalled # {} => (hooks = << >> /\ (Registered => hookRuns = 1))
        /\ phase = "exited" =>
              /\ hooks = << >>
              /\ \A p \in ProcNames : ~Running(p)

C10_Witness ==
    /\ session = "sim" /\ cause = "interrupt" /\ phase = "exited"
    /\ hookRuns = 1
    /\ {"gazebo_server", "start_robot_state_publisher_cmd", "bringup_cmd"}
          \subseteq signalled

\* C11: a resolution-time error (unresolved variable, invalid guard, bad
\* template, failing include) is fatal: the failing action is not resolved,
\* from then on no action is resolved, no process is started and the walk does
\* not move (no retry); the session eventually exits, and it has then run the
\* registered cleanup hook, left no process running and returned a nonzero
\* status.
C11_ErrorIsFatal ==
    /\ [](cause = "error" =>
            /\ failedAt \in ActionNames
            /\ resolved[failedAt] = 0
            /\ phase \in {"shutdown", "exited"})
    /\ [][cause = "error" =>
            /\ resolved' = resolved
            /\ stack' = stack
            /\ \A p \in ProcNames : proc[p] = "none" => proc'[p] = "none"
            /\ \A p \in ProcNames : ~Running(p) => ~Running(p)']_vars
    /\ []((cause = "error" /\ phase = "exited") =>
            /\ status > 0
            /\ hooks = << >>
            /\ Registered => hookRuns = 1
            /\ \A p \in ProcNames : ~Running(p))
    /\ (cause = "error") ~> (phase = "exited")

C11_Witness ==
    /\ phase = "exited" /\ cause = "error"
    /\ failedAt = "gz_robot"
    /\ "world_sdf_xacro" \in signalled
    /\ hookRuns = 1

\* C12: when the removal of the world file raises during the shutdown of the
\* simulation session (the file was never written), the failure is only
\* recorded: the step changes neither the phase, the cause, the status nor any
\* process; the shutdown goes on, the session eventually exits, and it exits
\* with no hook pending and no process running.
C12_CleanupFailureIsLoggedOnly ==
    /\ [][(~cleanupFailed /\ cleanupFailed') =>
            /\ phase' = phase /\ cause' = cause /\ status' = status
            /\ proc' = proc]_vars
    /\ []((session = "sim" /\ cleanupFailed /\ phase = "exited") =>
            /\ hooks = << >>
            /\ \A p \in ProcNames : ~Running(p))
    /\ (session = "sim" /\ cleanupFailed) ~> (phase = "exited")

C12_Witness ==
    /\ session = "sim" /\ phase = "exited" /\ cleanupFailed
    /\ proc["world_sdf_xacro"] = "crashed"
    /\ "gazebo_server" \in signalled

StillUp == phase \in {"resolving", "running"}

RespawnOn == session = "loop" /\ BoolOf("use_respawn") = "True"

RespawnOff == session = "loop" /\ BoolOf("use_respawn") = "False"

\* C14: in the loopback session with use_respawn false, the step in which
\* map_server exits abnormally changes no other process (the lifecycle
\* manager, the static transform publisher, robot_state_publisher and the
\* included sessions stay as they are), signals nothing, schedules no respawn
\* and leaves the session's phase and cause alone; a crashed map_server is
\* never started again.
C14_CrashWithoutRespawnChangesNothingElse ==
    /\ [][(RespawnOff /\ Running("map_server")
             /\ proc'["map_server"] = "crashed") =>
            /\ \A p \in ProcNames \ {"map_server"} : proc'[p] = proc[p]
            /\ signalled' = signalled
            /\ respawnTimer' = -1
            /\ phase' = phase /\ cause' = cause /\ status' = status]_vars
    /\ [][(RespawnOff /\ proc["map_server"] = "crashed")
            => (proc'["map_server"] = "crashed" /\ respawns' = 0)]_vars

C14_Witness ==
    /\ RespawnOff /\ phase = "running"
    /\ proc["map_server"] = "crashed"
    /\ \A p \in {"lifecycle_manager_map_server", "static_publisher_cmd",
                  "start_robot_state_publisher_cmd", "loopback_sim_cmd",
                  "rviz_cmd", "bringup_cmd"} : Running(p)

RECURSIVE Flatten(_)
\* the actions of a list in depth-first declaration order
Flatten(l) ==
    IF l = << >> THEN << >>
    ELSE << Head(l) >>
         \o (IF Head(l).kind = "group" THEN Flatten(List(Head(l).name))
             ELSE << >>)
         \o Flatten(Tail(l))

SimForest == Flatten(SimActions)
LoopForest == Flatten(LoopActions)
Forest == IF session = "sim" THEN SimForest ELSE LoopForest

\* the walk has reached the end of the top-level list
WalkDone ==
    /\ phase # "resolving" /\ cause # "error"
    /\ Len(stack) = 1 /\ Top.i > Len(List(session))

\* the resolution effect of action a has been issued
Issued(a) ==
    CASE a.kind \in {"exec", "node", "include"} -> proc[a.name] # "none"
      [] a.kind = "hook" -> hooks # << >> \/ hookRuns > 0
      [] a.kind = "env" -> envWrites > 0
      [] a.kind = "declare" -> a.arg \in DOMAIN RootLc
      [] OTHER -> TRUE

\* C15: no action is ever resolved twice; an action is resolved only when
\* every action before it in depth-first declaration order (the children of
\* the map-server group included) has a false guard or has been resolved and
\* has issued its effect; and when the walk has reached the end of the list
\* without interrupt or abort, every action of the session whose guard is
\* true has been resolved exactly once and no other action has.
C15_WalkedOnceInOrder ==
    /\ \A n \in ActionNames : resolved[n] <= 1
    /\ LET done == {j \in DOMAIN Forest : resolved[Forest[j].name] > 0}
           open == {i \in DOMAIN Forest :
                       /\ EvalGuard(Forest[i].guard, RootLc) # "False"
                       /\ ~(resolved[Forest[i].name] = 1 /\ Issued(Forest[i]))}
       IN  \A i \in open : \A j \in done : j < i
    /\ WalkDone =>
          /\ \A i \in DOMAIN Forest :
                resolved[Forest[i].name] =
                    IF EvalGuard(Forest[i].guard, RootLc) = "True" THEN 1 ELSE 0
          /\ \A n \in ActionNames \ {Forest[i].name : i \in DOMAIN Forest} :
                resolved[n] = 0

C15_Witness ==
    /\ session = "loop" /\ WalkDone /\ phase = "running"
    /\ resolved["map_server"] = 1 /\ resolved["SetParameter"] = 1
    /\ resolved["bringup_cmd"] = 1 /\ resolved["rviz_cmd"] = 0

\* the value of argument n is neither true nor false
NonBoolean(n) ==
    /\ Declared(session, n)
    /\ Effective(n) \notin {"True", "true", "False", "false"}

\* the actions whose IfCondition reads argument n
GuardedBy(n) ==
    CASE n = "use_robot_state_pub" -> {"start_robot_state_publisher_cmd"}
      [] n = "use_rviz" -> {"rviz_cmd"}
      [] n = "use_simulator" /\ session = "sim"
            -> {"gazebo_server", "gazebo_client"}
      [] n = "headless" /\ session = "sim" -> {"gazebo_client"}
      [] OTHER -> {}

GuardArgs == {"use_robot_state_pub", "use_rviz", "use_simulator", "headless"}

C17_ArgumentValues ==
    /\ \A k \in DOMAIN ctxStack : \A n \in DOMAIN ctxStack[k].lc :
          Declared(session, n) => ctxStack[k].lc[n] = Effective(n)
    /\ \A i \in DOMAIN Forest :
          LET a == Forest[i]
          IN  /\ (a.kind = "declare" /\ resolved[a.name] > 0) =>
                    /\ resolved[a.name] = 1
                    /\ a.arg \in DOMAIN RootLc
              /\ (a.kind # "declare" /\ resolved[a.name] > 0) =>
                    \A n \in a.uses :
                        /\ n \in DOMAIN ctxSeen[a.name].lc
                        /\ ctxSeen[a.name].lc[n] = Effective(n)
    /\ Effective("map") \notin {"", Unresolved}
    /\ cli["map"] = "unset" => Effective("map") = "maps/depot.yaml"
    /\ childCtx["bringup_cmd"].seeded =>
          childCtx["bringup_cmd"].m["map"] = Effective("map")
    /\ (session = "loop" /\ resolved["map_server"] > 0) =>
          ctxSeen["map_server"].lc["map"] = Effective("map")

C17_Witness ==
    /\ session = "loop" /\ cli["map"] = "maps/warehouse.yaml"
    /\ resolved["map_server"] = 1
    /\ ctxSeen["map_server"].lc["map"] = "maps/warehouse.yaml"
    /\ childCtx["bringup_cmd"].seeded
    /\ childCtx["bringup_cmd"].m["map"] = "maps/warehouse.yaml"

\* C18: GZ_SIM_RESOURCE_PATH is the inherited value, or the inherited value
\* with the worlds directory appended once; in the simulation session it has
\* been appended, exactly once, in every state in which the xacro process,
\* the gazebo server, the gazebo client or any other process of the session
\* has been spawned, so that it is not modified after a spawn; the loopback
\* session leaves it alone.
C18_ResourcePathAppendedOnceBeforeSpawns ==
    /\ envWrites <= 1
    /\ env = IF envWrites = 0 THEN << "inherited" >>
             ELSE << "inherited", "worlds" >>
    /\ session = "loop" => envWrites = 0
    /\ (session = "sim" /\ \E p \in ProcNames : proc[p] # "none")
          => env = << "inherited", "worlds" >>
    /\ resolved["set_env_vars_resources"] = envWrites

C18_Witness ==
    /\ session = "sim"
    /\ proc["world_sdf_xacro"] = "exited"
    /\ Running("gazebo_server") /\ Running("gazebo_client")
    /\ env = << "inherited", "worlds" >>

AutostartIs(b) == session = "loop" /\ BoolOf("autostart") = b

\* map_server is managed: it runs and so does its lifecycle manager
Managed ==
    Running("map_server") /\ Running("lifecycle_manager_map_server")

\* what C19 says of the lifecycle manager in every state and step: the only
\* node it drives is map_server, and only while both run; with autostart
\* false map_server is unconfigured as long as no external trigger has
\* occurred; map_server becomes active only from the configured (inactive)
\* state
C19_ManagerSafety ==
    /\ [](lifecycle # "unconfigured" => Running("map_server"))
    /\ [][lifecycle' \notin {lifecycle, "unconfigured"} => Managed]_vars
    /\ []((AutostartIs("False") /\ ~triggered) => lifecycle = "unconfigured")
    /\ [][(lifecycle # "active" /\ lifecycle' = "active")
            => lifecycle = "inactive"]_vars

PastGazebo == session = "sim" /\ resolved["bringup_cmd"] = 1

Refs(a) ==
    a.uses
    \cup (CASE a.guard.t = "if" -> {a.guard.v}
           [] a.guard.t = "and_not" -> {a.guard.v, a.guard.d}
           [] OTHER -> {})
    \cup {a.argmap[k].v : k \in {x \in DOMAIN a.argmap :
                                    a.argmap[x].t \in {"var", "bool"}}}

\* in forest f the declarations come first, and whatever a later action
\* reads is declared
WellDeclared(f) ==
    \A j \in DOMAIN f : f[j].kind # "declare" =>
        /\ \A i \in DOMAIN f : f[i].kind = "declare" => i < j
        /\ \A n \in Refs(f[j]) :
              \E i \in 1..(j - 1) : f[i].kind = "declare" /\ f[i].arg = n

SimWellDeclared == WellDeclared(SimForest)
LoopWellDeclared == WellDeclared(LoopForest)

NoOverrides == \A n \in CliArgs : cli[n] = "unset"

\* C21: in both sessions the declarations precede every other action and
\* declare every variable a later action reads without a default of its own;
\* when an action other than a declaration has been resolved, every
\* declaration has been resolved; when the walk stands at such an action,
\* every variable it reads is bound; and in a run without command-line
\* overrides no guard and no payload fails to resolve, so that an error, if
\* any, comes from outside the description (a session file, an external
\* command, a parameter template).
C21_DeclaredBeforeUse ==
    /\ IF session = "sim" THEN SimWellDeclared ELSE LoopWellDeclared
    /\ (\E j \in DOMAIN Forest :
            Forest[j].kind # "declare" /\ resolved[Forest[j].name] > 0)
          => \A i \in DOMAIN Forest :
                Forest[i].kind = "declare" => resolved[Forest[i].name] = 1
    /\ (Resolving /\ Cur.kind # "declare") => Refs(Cur) \subseteq DOMAIN Lc
    /\ (NoOverrides /\ Resolving) =>
          /\ EvalGuard(Cur.guard, Lc) \in {"True", "False"}
          /\ ~PayloadError(Cur, Lc)
    /\ (NoOverrides /\ cause = "error") =>
          \E j \in DOMAIN Forest :
              Forest[j].name = failedAt /\ Fallible(Forest[j])

\* a run on the defaults alone, resolved to the end, the robot spawned at
\* the default pose
C21_Witness ==
    /\ session = "sim" /\ NoOverrides /\ phase = "running"
    /\ resolved["bringup_cmd"] = 1
    /\ childCtx["gz_robot"].seeded
    /\ childCtx["gz_robot"].m["x_pose"] = "-8.00"
    /\ childCtx["gz_robot"].m["robot_name"] = "nav2_turtlebot4"

\* C22: in the simulation session neither the xacro transform nor the
\* shutdown hook carries a guard, and a session that has exited registered
\* the hook in exactly the case in which it issued the transform, that is in
\* which the world file could be created; a world file that exists was
\* written by the transform, to the one path the hook removes.
C22_HookRegisteredIffTransformIssued ==
    session = "sim" =>
        /\ world_sdf_xacro.guard = NoGuard
        /\ remove_temp_sdf_file.guard = NoGuard
        /\ worldFile => proc["world_sdf_xacro"] = "exited"
        /\ phase = "exited" =>
              (Registered <=> proc["world_sdf_xacro"] # "none")

===============================================================================
